---- MODULE Spec2Model ----
(***************************************************************************)
(* Model of the E&C inbox analysis engine (src/inbox_analyser.py) and of   *)
(* the load flow of its dashboard (src/ec-inbox-dashboard.py).             *)
(*                                                                         *)
(* Text is a sequence of one-character strings; the absent value (None /   *)
(* NaN / NaT) is NULL.  Confidences are integer percentages (0.3 is 30).   *)
(***************************************************************************)
EXTENDS Integers, Sequences, FiniteSets, TLC

\* None / NaN / NaT.  It is a one-element tuple holding no character, so that
\* it can be compared with strings, and is tested for before any string use.
NULL == <<"<null>">>

\* ------------------------------------------------------------- characters

UpperOf ==
  [a |-> "A", b |-> "B", c |-> "C", d |-> "D", e |-> "E", f |-> "F", g |-> "G",
   h |-> "H", i |-> "I", j |-> "J", k |-> "K", l |-> "L", m |-> "M", n |-> "N",
   o |-> "O", p |-> "P", q |-> "Q", r |-> "R", s |-> "S", t |-> "T", u |-> "U",
   v |-> "V", w |-> "W", x |-> "X", y |-> "Y", z |-> "Z"]

LowerLetters == DOMAIN UpperOf
UpperLetters == {UpperOf[c] : c \in LowerLetters}
Digits == {"0", "1", "2", "3", "4", "5", "6", "7", "8", "9"}
\* The two letters outside ASCII that the noise phrases use, written by name
\* ("a_acute" is the one character U+00E1); they are \w in Python 3.
AccentedLower == {"a_acute", "e_acute"}
AccentedUpper == {"A_acute", "E_acute"}

\* str.lower() on one character
LowerOf ==
  [c \in UpperLetters \cup AccentedUpper |->
     IF c = "A_acute" THEN "a_acute"
     ELSE IF c = "E_acute" THEN "e_acute"
     ELSE CHOOSE l \in LowerLetters : UpperOf[l] = c]

LowerChar(c) == IF c \in DOMAIN LowerOf THEN LowerOf[c] ELSE c

\* str.lower()
Lower(t) == [i \in 1..Len(t) |-> LowerChar(t[i])]

\* the regex class \s
SpaceChars == {" ", "\t", "\n", "\r"}
IsSpace(c) == c \in SpaceChars

\* the regex class \w
WordChars ==
  LowerLetters \cup UpperLetters \cup Digits \cup AccentedLower \cup AccentedUpper \cup {"_"}
IsWord(c) == c \in WordChars

\* the class [a-z0-9@._/%$ -] of clean_text_chatbot
ChatbotChars == LowerLetters \cup Digits \cup {"@", ".", "_", "/", "%", "$", " ", "-"}
ChatbotKept(c) == c \in ChatbotChars

\* ------------------------------------------------------------ normalizers

\* a character re.sub deletes
DROP == "<drop>"
Kept(c) == c # DROP

\* re.sub(r"\s+", " ", text): every maximal run of whitespace becomes one space
CollapseSpace(t) ==
  SelectSeq([i \in 1..Len(t) |->
               IF ~IsSpace(t[i]) THEN t[i]
               ELSE IF i > 1 /\ IsSpace(t[i - 1]) THEN DROP
               ELSE " "],
            Kept)

\* re.sub(r"[^\w\s]", " ", text): each other character becomes a space
PunctToSpace(t) ==
  [i \in 1..Len(t) |-> IF IsWord(t[i]) \/ IsSpace(t[i]) THEN t[i] ELSE " "]

\* mutant: no character is deleted
DropDisallowed_KeepAll(t) == SelectSeq(t, Kept)

\* re.sub(r"[^a-z0-9@._/%$ -]", "", text): each other character is deleted
DropDisallowed(t) == SelectSeq(t, ChatbotKept)

\* str.strip(): from the first to the last character that is not whitespace
Strip(t) ==
  LET solid == {i \in 1..Len(t) : ~IsSpace(t[i])}
  IN IF solid = {} THEN <<>>
     ELSE SubSeq(t, CHOOSE i \in solid : \A j \in solid : i <= j,
                    CHOOSE i \in solid : \A j \in solid : i >= j)

clean_text_basic(text) ==
  IF text = NULL THEN <<>>
  ELSE Strip(PunctToSpace(CollapseSpace(Lower(text))))

clean_text_chatbot_NoLower(text) ==
  IF text = NULL THEN <<>>
  ELSE Strip(DropDisallowed(CollapseSpace(text)))

clean_text_chatbot(text) ==
  IF text = NULL THEN <<>>
  ELSE Strip(DropDisallowed(CollapseSpace(Lower(text))))

\* ------------------------------------------------------- regular expressions
\* A pattern is a sequence of atoms; re.search asks whether it matches at
\* some position, so greedy and lazy repetition agree.

Lit(s) == [k |-> "lit", s |-> s]        \* the characters of s
WB == [k |-> "wb", s |-> <<>>]          \* \b
SpStar == [k |-> "sp*", s |-> <<>>]     \* \s*
DotStar == [k |-> "any*", s |-> <<>>]   \* .*
Cls(cs) == [k |-> "cls", s |-> cs]      \* [...]
Alt(ss) == [k |-> "alt", s |-> ss]      \* (a|b)
Opt(s) == [k |-> "opt", s |-> s]        \* (a)?

\* two characters are equal; ic is re.IGNORECASE
SameChar(a, b, ic) == a = b \/ (ic /\ LowerChar(a) = LowerChar(b))

\* s occurs in t at position i
HasAt(t, i, s, ic) ==
  /\ i + Len(s) - 1 <= Len(t)
  /\ \A m \in 1..Len(s) : SameChar(t[i + m - 1], s[m], ic)

\* \b holds between t[i-1] and t[i]
IsBoundary(t, i) ==
  (i > 1 /\ IsWord(t[i - 1])) # (i <= Len(t) /\ IsWord(t[i]))

\* atoms k.. of pat match t from position i on
MatchAt(pat, t, ic) ==
  LET m[k \in 1..(Len(pat) + 1), i \in 1..(Len(t) + 1)] ==
        IF k > Len(pat) THEN TRUE
        ELSE LET a == pat[k] IN
          CASE a.k = "lit" -> HasAt(t, i, a.s, ic) /\ m[k + 1, i + Len(a.s)]
            [] a.k = "wb" -> IsBoundary(t, i) /\ m[k + 1, i]
            [] a.k = "sp*" ->
                 \E j \in i..(Len(t) + 1) :
                   (\A n \in i..(j - 1) : IsSpace(t[n])) /\ m[k + 1, j]
            [] a.k = "any*" ->
                 \E j \in i..(Len(t) + 1) :
                   (\A n \in i..(j - 1) : t[n] # "\n") /\ m[k + 1, j]
            [] a.k = "cls" -> i <= Len(t) /\ t[i] \in a.s /\ m[k + 1, i + 1]
            [] a.k = "alt" ->
                 \E s \in a.s : HasAt(t, i, s, ic) /\ m[k + 1, i + Len(s)]
            [] a.k = "opt" ->
                 \/ m[k + 1, i]
                 \/ HasAt(t, i, a.s, ic) /\ m[k + 1, i + Len(a.s)]
  IN m

\* bool(re.search(pat, t)), with flags=re.IGNORECASE when ic
re_search(pat, t, ic) ==
  LET m == MatchAt(pat, t, ic) IN \E i \in 1..(Len(t) + 1) : m[1, i]

\* ------------------------------------------------------------ rule tables

CATEGORY_MAP ==
  <<
    [cat |-> "Anti-Bribery and Anti-Corruption (ABAC)",
     sub |-> "ISO 37001",
     strong |-> <<
        (* \biso\s*37001\b *) <<WB, Lit(<<"i","s","o">>), SpStar, Lit(<<"3","7","0","0","1">>), WB>>,
        (* \baudit\b *) <<WB, Lit(<<"a","u","d","i","t">>), WB>>,
        (* \banti[- ]bribery\b *) <<WB, Lit(<<"a","n","t","i">>), Cls({"-"," "}), Lit(<<"b","r","i","b","e","r","y">>), WB>>>>,
     weak |-> <<
        (* \bcertification\b *) <<WB, Lit(<<"c","e","r","t","i","f","i","c","a","t","i","o","n">>), WB>>,
        (* \bcompliance\b *) <<WB, Lit(<<"c","o","m","p","l","i","a","n","c","e">>), WB>>>>],
    [cat |-> "Anti-Bribery and Anti-Corruption (ABAC)",
     sub |-> "Gifts & Entertainment",
     strong |-> <<
        (* \bgift\b *) <<WB, Lit(<<"g","i","f","t">>), WB>>,
        (* \bgifts\b *) <<WB, Lit(<<"g","i","f","t","s">>), WB>>,
        (* \bdeclaration\b *) <<WB, Lit(<<"d","e","c","l","a","r","a","t","i","o","n">>), WB>>,
        (* \boffered\b *) <<WB, Lit(<<"o","f","f","e","r","e","d">>), WB>>,
        (* \breceived\b *) <<WB, Lit(<<"r","e","c","e","i","v","e","d">>), WB>>>>,
     weak |-> <<
        (* \bmeal\b *) <<WB, Lit(<<"m","e","a","l">>), WB>>,
        (* \btoken\b *) <<WB, Lit(<<"t","o","k","e","n">>), WB>>,
        (* \bhospitality\b *) <<WB, Lit(<<"h","o","s","p","i","t","a","l","i","t","y">>), WB>>>>],
    [cat |-> "Anti-Bribery and Anti-Corruption (ABAC)",
     sub |-> "ABAC eLearning / Training",
     strong |-> <<
        (* \babac\b.*(training|elearning) *) <<WB, Lit(<<"a","b","a","c">>), WB, DotStar, Alt({<<"t","r","a","i","n","i","n","g">>, <<"e","l","e","a","r","n","i","n","g">>})>>,
        (* \bmandatory training\b *) <<WB, Lit(<<"m","a","n","d","a","t","o","r","y"," ","t","r","a","i","n","i","n","g">>), WB>>>>,
     weak |-> <<
        (* \bprocedures\b *) <<WB, Lit(<<"p","r","o","c","e","d","u","r","e","s">>), WB>>>>],
    [cat |-> "Anti-Bribery and Anti-Corruption (ABAC)",
     sub |-> "Third-Party Due Diligence / Screening",
     strong |-> <<
        (* \bdow jones\b *) <<WB, Lit(<<"d","o","w"," ","j","o","n","e","s">>), WB>>,
        (* \bscreening\b *) <<WB, Lit(<<"s","c","r","e","e","n","i","n","g">>), WB>>,
        (* \bthird[- ]party\b *) <<WB, Lit(<<"t","h","i","r","d">>), Cls({"-"," "}), Lit(<<"p","a","r","t","y">>), WB>>,
        (* \bdue diligence\b *) <<WB, Lit(<<"d","u","e"," ","d","i","l","i","g","e","n","c","e">>), WB>>,
        (* \bvendor screening\b *) <<WB, Lit(<<"v","e","n","d","o","r"," ","s","c","r","e","e","n","i","n","g">>), WB>>,
        (* \bdue diligence tool\b *) <<WB, Lit(<<"d","u","e"," ","d","i","l","i","g","e","n","c","e"," ","t","o","o","l">>), WB>>>>,
     weak |-> <<
        (* \bcheck\b *) <<WB, Lit(<<"c","h","e","c","k">>), WB>>,
        (* \bmonitoring\b *) <<WB, Lit(<<"m","o","n","i","t","o","r","i","n","g">>), WB>>>>],
    [cat |-> "Anti-Bribery and Anti-Corruption (ABAC)",
     sub |-> "Charitable Donations, Sponsorship & Political Contributions",
     strong |-> <<
        (* \bsponsorship\b *) <<WB, Lit(<<"s","p","o","n","s","o","r","s","h","i","p">>), WB>>,
        (* \bdonation\b *) <<WB, Lit(<<"d","o","n","a","t","i","o","n">>), WB>>,
        (* \bcharitable\b *) <<WB, Lit(<<"c","h","a","r","i","t","a","b","l","e">>), WB>>>>,
     weak |-> <<
        (* \bcsr\b *) <<WB, Lit(<<"c","s","r">>), WB>>>>],
    [cat |-> "Conflict of Interests (COI)",
     sub |-> "COI Declaration",
     strong |-> <<
        (* \bconflict of interest\b *) <<WB, Lit(<<"c","o","n","f","l","i","c","t"," ","o","f"," ","i","n","t","e","r","e","s","t">>), WB>>,
        (* \bcoi\b *) <<WB, Lit(<<"c","o","i">>), WB>>,
        (* \binterest declaration\b *) <<WB, Lit(<<"i","n","t","e","r","e","s","t"," ","d","e","c","l","a","r","a","t","i","o","n">>), WB>>>>,
     weak |-> <<
        (* \bfamily relationship\b *) <<WB, Lit(<<"f","a","m","i","l","y"," ","r","e","l","a","t","i","o","n","s","h","i","p">>), WB>>>>],
    [cat |-> "Conflict of Interests (COI)",
     sub |-> "External Appointments",
     strong |-> <<
        (* \bappointment\b *) <<WB, Lit(<<"a","p","p","o","i","n","t","m","e","n","t">>), WB>>,
        (* \bboard\b *) <<WB, Lit(<<"b","o","a","r","d">>), WB>>,
        (* \bexternal role\b *) <<WB, Lit(<<"e","x","t","e","r","n","a","l"," ","r","o","l","e">>), WB>>>>,
     weak |-> <<
        (* \badditional role\b *) <<WB, Lit(<<"a","d","d","i","t","i","o","n","a","l"," ","r","o","l","e">>), WB>>>>],
    [cat |-> "Data Protection",
     sub |-> "Data Incident / Breach",
     strong |-> <<
        (* \bdata breach\b *) <<WB, Lit(<<"d","a","t","a"," ","b","r","e","a","c","h">>), WB>>,
        (* \bphishing\b *) <<WB, Lit(<<"p","h","i","s","h","i","n","g">>), WB>>,
        (* \bransomware\b *) <<WB, Lit(<<"r","a","n","s","o","m","w","a","r","e">>), WB>>,
        (* \bcyber incident\b *) <<WB, Lit(<<"c","y","b","e","r"," ","i","n","c","i","d","e","n","t">>), WB>>>>,
     weak |-> <<
        (* \bsecurity incident\b *) <<WB, Lit(<<"s","e","c","u","r","i","t","y"," ","i","n","c","i","d","e","n","t">>), WB>>,
        (* \bpersonal data\b *) <<WB, Lit(<<"p","e","r","s","o","n","a","l"," ","d","a","t","a">>), WB>>>>],
    [cat |-> "Data Protection",
     sub |-> "Data Governance & Classification",
     strong |-> <<
        (* \bdata classification\b *) <<WB, Lit(<<"d","a","t","a"," ","c","l","a","s","s","i","f","i","c","a","t","i","o","n">>), WB>>,
        (* \bGDPR\b *) <<WB, Lit(<<"G","D","P","R">>), WB>>,
        (* \bgovernance\b *) <<WB, Lit(<<"g","o","v","e","r","n","a","n","c","e">>), WB>>>>,
     weak |-> <<
        (* \bsensitive information\b *) <<WB, Lit(<<"s","e","n","s","i","t","i","v","e"," ","i","n","f","o","r","m","a","t","i","o","n">>), WB>>>>],
    [cat |-> "Interested Person Transactions (IPT)",
     sub |-> "IPT Policies & Procedures",
     strong |-> <<
        (* \bipt\b.*policy *) <<WB, Lit(<<"i","p","t">>), WB, DotStar, Lit(<<"p","o","l","i","c","y">>)>>,
        (* \bipt\b.*procedure *) <<WB, Lit(<<"i","p","t">>), WB, DotStar, Lit(<<"p","r","o","c","e","d","u","r","e">>)>>>>,
     weak |-> <<>>],
    [cat |-> "Interested Person Transactions (IPT)",
     sub |-> "IPT Portal / System Issues",
     strong |-> <<
        (* \bipt portal\b *) <<WB, Lit(<<"i","p","t"," ","p","o","r","t","a","l">>), WB>>,
        (* \bipt system\b *) <<WB, Lit(<<"i","p","t"," ","s","y","s","t","e","m">>), WB>>,
        (* \baccess\b *) <<WB, Lit(<<"a","c","c","e","s","s">>), WB>>>>,
     weak |-> <<
        (* \blogin issue\b *) <<WB, Lit(<<"l","o","g","i","n"," ","i","s","s","u","e">>), WB>>>>],
    [cat |-> "Interested Person Transactions (IPT)",
     sub |-> "IPT Refreshers / Training",
     strong |-> <<
        (* \bipt training\b *) <<WB, Lit(<<"i","p","t"," ","t","r","a","i","n","i","n","g">>), WB>>,
        (* \bipt refresher\b *) <<WB, Lit(<<"i","p","t"," ","r","e","f","r","e","s","h","e","r">>), WB>>>>,
     weak |-> <<>>],
    [cat |-> "Sanctions",
     sub |-> "Sanction Risk Framework",
     strong |-> <<
        (* \bsanction\b *) <<WB, Lit(<<"s","a","n","c","t","i","o","n">>), WB>>,
        (* \brisk assessment\b *) <<WB, Lit(<<"r","i","s","k"," ","a","s","s","e","s","s","m","e","n","t">>), WB>>,
        (* \bcompliance\b *) <<WB, Lit(<<"c","o","m","p","l","i","a","n","c","e">>), WB>>>>,
     weak |-> <<>>],
    [cat |-> "Sanctions",
     sub |-> "Sanctions Policies & Procedures",
     strong |-> <<
        (* \bsanctions operating\b *) <<WB, Lit(<<"s","a","n","c","t","i","o","n","s"," ","o","p","e","r","a","t","i","n","g">>), WB>>,
        (* \bsanctions policy\b *) <<WB, Lit(<<"s","a","n","c","t","i","o","n","s"," ","p","o","l","i","c","y">>), WB>>,
        (* \breview sanctions\b *) <<WB, Lit(<<"r","e","v","i","e","w"," ","s","a","n","c","t","i","o","n","s">>), WB>>>>,
     weak |-> <<>>]
  >>

PATTERNS ==
  <<
    [group |-> "high_confidence", weight |-> 3,
     patterns |-> <<
        (* \bhow to\b *) <<WB, Lit(<<"h","o","w"," ","t","o">>), WB>>,
        (* \bhow do i\b *) <<WB, Lit(<<"h","o","w"," ","d","o"," ","i">>), WB>>,
        (* \bwhere do i\b *) <<WB, Lit(<<"w","h","e","r","e"," ","d","o"," ","i">>), WB>>,
        (* \bprocess\b *) <<WB, Lit(<<"p","r","o","c","e","s","s">>), WB>>,
        (* \bprocedure\b *) <<WB, Lit(<<"p","r","o","c","e","d","u","r","e">>), WB>>,
        (* \breset password\b *) <<WB, Lit(<<"r","e","s","e","t"," ","p","a","s","s","w","o","r","d">>), WB>>,
        (* \blogin issue\b *) <<WB, Lit(<<"l","o","g","i","n"," ","i","s","s","u","e">>), WB>>,
        (* \baccess denied\b *) <<WB, Lit(<<"a","c","c","e","s","s"," ","d","e","n","i","e","d">>), WB>>,
        (* \bactivate account\b *) <<WB, Lit(<<"a","c","t","i","v","a","t","e"," ","a","c","c","o","u","n","t">>), WB>>,
        (* \bcheck status\b *) <<WB, Lit(<<"c","h","e","c","k"," ","s","t","a","t","u","s">>), WB>>,
        (* \bsubmit form\b *) <<WB, Lit(<<"s","u","b","m","i","t"," ","f","o","r","m">>), WB>>,
        (* \bform attached\b *) <<WB, Lit(<<"f","o","r","m"," ","a","t","t","a","c","h","e","d">>), WB>>,
        (* \bsubmit declaration\b *) <<WB, Lit(<<"s","u","b","m","i","t"," ","d","e","c","l","a","r","a","t","i","o","n">>), WB>>,
        (* \bg&e\b *) <<WB, Lit(<<"g","&","e">>), WB>>,
        (* \bgift(s?) & entertainment\b *) <<WB, Lit(<<"g","i","f","t">>), Opt(<<"s">>), Lit(<<" ","&"," ","e","n","t","e","r","t","a","i","n","m","e","n","t">>), WB>>,
        (* \bconflict of interest\b *) <<WB, Lit(<<"c","o","n","f","l","i","c","t"," ","o","f"," ","i","n","t","e","r","e","s","t">>), WB>>,
        (* \bcoi\b *) <<WB, Lit(<<"c","o","i">>), WB>>,
        (* \btraining deadline\b *) <<WB, Lit(<<"t","r","a","i","n","i","n","g"," ","d","e","a","d","l","i","n","e">>), WB>>,
        (* \bmandatory training\b *) <<WB, Lit(<<"m","a","n","d","a","t","o","r","y"," ","t","r","a","i","n","i","n","g">>), WB>>,
        (* \bipt submission\b *) <<WB, Lit(<<"i","p","t"," ","s","u","b","m","i","s","s","i","o","n">>), WB>>,
        (* \bannual declaration\b *) <<WB, Lit(<<"a","n","n","u","a","l"," ","d","e","c","l","a","r","a","t","i","o","n">>), WB>>>>],
    [group |-> "medium_confidence", weight |-> 1,
     patterns |-> <<
        (* \bquestion\b *) <<WB, Lit(<<"q","u","e","s","t","i","o","n">>), WB>>,
        (* \bclarification\b *) <<WB, Lit(<<"c","l","a","r","i","f","i","c","a","t","i","o","n">>), WB>>,
        (* \bhelp\b *) <<WB, Lit(<<"h","e","l","p">>), WB>>,
        (* \bsupport\b *) <<WB, Lit(<<"s","u","p","p","o","r","t">>), WB>>,
        (* \binquiry\b *) <<WB, Lit(<<"i","n","q","u","i","r","y">>), WB>>,
        (* \bissue\b *) <<WB, Lit(<<"i","s","s","u","e">>), WB>>,
        (* \bpolicy\b *) <<WB, Lit(<<"p","o","l","i","c","y">>), WB>>,
        (* \bupdate procedure\b *) <<WB, Lit(<<"u","p","d","a","t","e"," ","p","r","o","c","e","d","u","r","e">>), WB>>,
        (* \bworkflow\b *) <<WB, Lit(<<"w","o","r","k","f","l","o","w">>), WB>>,
        (* \bcompliance\b *) <<WB, Lit(<<"c","o","m","p","l","i","a","n","c","e">>), WB>>,
        (* \brequest for check\b *) <<WB, Lit(<<"r","e","q","u","e","s","t"," ","f","o","r"," ","c","h","e","c","k">>), WB>>,
        (* \bdue diligence\b *) <<WB, Lit(<<"d","u","e"," ","d","i","l","i","g","e","n","c","e">>), WB>>,
        (* \bscreening\b *) <<WB, Lit(<<"s","c","r","e","e","n","i","n","g">>), WB>>,
        (* \bsanctions\b *) <<WB, Lit(<<"s","a","n","c","t","i","o","n","s">>), WB>>>>],
    [group |-> "borderline_human_indicators", weight |-> -1,
     patterns |-> <<
        (* \bplease advise\b *) <<WB, Lit(<<"p","l","e","a","s","e"," ","a","d","v","i","s","e">>), WB>>,
        (* \bneed approval\b *) <<WB, Lit(<<"n","e","e","d"," ","a","p","p","r","o","v","a","l">>), WB>>,
        (* \brequest approval\b *) <<WB, Lit(<<"r","e","q","u","e","s","t"," ","a","p","p","r","o","v","a","l">>), WB>>,
        (* \bconfirm\b *) <<WB, Lit(<<"c","o","n","f","i","r","m">>), WB>>,
        (* \bexception\b *) <<WB, Lit(<<"e","x","c","e","p","t","i","o","n">>), WB>>,
        (* \bescalation\b *) <<WB, Lit(<<"e","s","c","a","l","a","t","i","o","n">>), WB>>,
        (* \bwaiver\b *) <<WB, Lit(<<"w","a","i","v","e","r">>), WB>>,
        (* \bcase assessment\b *) <<WB, Lit(<<"c","a","s","e"," ","a","s","s","e","s","s","m","e","n","t">>), WB>>>>],
    [group |-> "human_required", weight |-> -3,
     patterns |-> <<
        (* \blegal\b *) <<WB, Lit(<<"l","e","g","a","l">>), WB>>,
        (* \bcomplaint\b *) <<WB, Lit(<<"c","o","m","p","l","a","i","n","t">>), WB>>,
        (* \bconfidential\b *) <<WB, Lit(<<"c","o","n","f","i","d","e","n","t","i","a","l">>), WB>>,
        (* \bresignation\b *) <<WB, Lit(<<"r","e","s","i","g","n","a","t","i","o","n">>), WB>>,
        (* \bbribery\b *) <<WB, Lit(<<"b","r","i","b","e","r","y">>), WB>>,
        (* \bcorruption\b *) <<WB, Lit(<<"c","o","r","r","u","p","t","i","o","n">>), WB>>,
        (* \bdisciplinary\b *) <<WB, Lit(<<"d","i","s","c","i","p","l","i","n","a","r","y">>), WB>>,
        (* \bmisconduct\b *) <<WB, Lit(<<"m","i","s","c","o","n","d","u","c","t">>), WB>>,
        (* \bretaliation\b *) <<WB, Lit(<<"r","e","t","a","l","i","a","t","i","o","n">>), WB>>,
        (* \bwhistleblow(ing)?\b *) <<WB, Lit(<<"w","h","i","s","t","l","e","b","l","o","w">>), Opt(<<"i","n","g">>), WB>>>>]
  >>


\* ------------------------------------------------------ category mapping

\* sum(bool(p.search(text)) for p in pats), the patterns compiled IGNORECASE
Hits(pats, text) == Cardinality({i \in 1..Len(pats) : re_search(pats[i], text, TRUE)})

Min(a, b) == IF a <= b THEN a ELSE b

NotDetected ==
  [cat |-> "Not Detected", sub |-> "Not Detected", label |-> "Not Detected", conf |-> 0]

\* mutant: a pair that only equals the best score replaces it
Beats_OrEqual(score, best_score) == score >= best_score

\* the test that lets a pair replace the best one so far
Beats(score, best_score) == score > best_score

\* mutant: the weights of strong and weak hits swapped
RawScore_Swapped(strong_hits, weak_hits) == strong_hits + weak_hits * 3

\* strong_hits * 3 + weak_hits
RawScore(strong_hits, weak_hits) == strong_hits * 3 + weak_hits

\* "strong" if strong_hits else "weak"
StrengthLabel(strong_hits) == IF strong_hits > 0 THEN "strong" ELSE "weak"

\* mutant: best_score / 5 as an integer division
CategoryConfidence_IntDiv(best_score) == Min(100, (best_score \div 5) * 100)

\* min(1, best_score / 5), in percent
CategoryConfidence(best_score) == Min(100, best_score * 20)

\* best and best_score after the first n pairs of the loop of map_category;
\* best is NULL or <<cat, sub, label>>
MapLoop(text) ==
  LET loop[n \in 0..Len(CATEGORY_MAP)] ==
        IF n = 0 THEN [best |-> NULL, best_score |-> 0]
        ELSE LET before == loop[n - 1]
                 strengths == CATEGORY_MAP[n]
                 strong_hits == Hits(strengths.strong, text)
                 weak_hits == Hits(strengths.weak, text)
                 score == RawScore(strong_hits, weak_hits)
             IN IF Beats(score, before.best_score)
                THEN [best |-> <<strengths.cat, strengths.sub, StrengthLabel(strong_hits)>>,
                      best_score |-> score]
                ELSE before
  IN loop[Len(CATEGORY_MAP)]

map_category(text) ==
  LET end == MapLoop(clean_text_basic(text))
  IN IF end.best = NULL THEN NotDetected
     ELSE [cat |-> end.best[1], sub |-> end.best[2], label |-> end.best[3],
           conf |-> CategoryConfidence(end.best_score)]

\* --------------------------------------------------- chatbot addressability

\* raised by an operation that Python aborts with an exception
RAISED == <<"<raised>">>

SumWeights_OncePerGroup(text) ==
  LET sum[n \in 0..Len(PATTERNS)] ==
        IF n = 0 THEN 0
        ELSE LET data == PATTERNS[n]
                 fired == {i \in 1..Len(data.patterns) :
                             re_search(data.patterns[i], text, FALSE)}
             IN sum[n - 1] + (IF fired = {} THEN 0 ELSE data.weight)
  IN sum[Len(PATTERNS)]

\* score after the loops of compute_score over the first n groups
SumWeights(text) ==
  LET sum[n \in 0..Len(PATTERNS)] ==
        IF n = 0 THEN 0
        ELSE LET data == PATTERNS[n]
                 fired == {i \in 1..Len(data.patterns) :
                             re_search(data.patterns[i], text, FALSE)}
             IN sum[n - 1] + Cardinality(fired) * data.weight
  IN sum[Len(PATTERNS)]

\* subject + " " + body is a TypeError unless both operands are str
ConcatRaises(subject, body) == subject = NULL \/ body = NULL

\* compute_score where the concatenation succeeds
compute_score(subject, body) ==
  SumWeights(clean_text_chatbot(subject \o <<" ">> \o body))

\* mutant: "Yes" only above 2
Decide_StrictYes(score) ==
  IF score > 2 THEN <<"Yes", Min(100, score * 25), score>>
  ELSE IF score <= -1 THEN <<"No", 10, score>>
  ELSE <<"No", 30, score>>

\* the decision for a score: <<Chatbot_Addressable, Chatbot_Confidence %, Chatbot_Score>>
Decide(score) ==
  IF score >= 2 THEN <<"Yes", Min(100, score * 25), score>>
  ELSE IF score <= -1 THEN <<"No", 10, score>>
  ELSE <<"No", 30, score>>

\* chatbot_addressability(row): the triple, or RAISED when compute_score raises
chatbot_addressability(subject, body) ==
  IF ConcatRaises(subject, body) THEN RAISED
  ELSE Decide(compute_score(subject, body))

\* ------------------------------------------------------------------ state

VARIABLES
  input,       \* SpecNorm: the value handed to the normalizers (NULL or a string)
  basic,       \* SpecNorm: clean_text_basic's outputs, each applied to the last
  chatbot,     \* SpecNorm: clean_text_chatbot's outputs, each applied to the last
  Subject,     \* SpecClassify: the record's Subject (NULL or a string)
  Body,        \* SpecClassify: the record's Body.TextBody (NULL or a string)
  category,    \* SpecClassify: map_category's result, UNSET before the call
  addressable, \* SpecClassify: chatbot_addressability's result, UNSET before the call
  file,        \* the workbook handed to run_full_pipeline or to the dashboard
  df,          \* the DataFrame of the run
  pc,          \* where the run is
  error,       \* the exception the engine raised, NoError if none
  calls,       \* the functions called so far, in order
  source,      \* SpecDash: "upload", "default", or "none" when no dataset is chosen
  shown        \* SpecDash: the messages shown to the user

vars ==
  <<input, basic, chatbot, Subject, Body, category, addressable,
    file, df, pc, error, calls, source, shown>>
normVars == <<input, basic, chatbot>>
classifyVars == <<Subject, Body, category, addressable>>
pipeVars == <<file, df, pc, error, calls, source, shown>>

UNSET == <<"<unset>">>
NoCategory == [cat |-> "<unset>", sub |-> "<unset>", label |-> "<unset>", conf |-> 0]

NormIdle == input = NULL /\ basic = <<>> /\ chatbot = <<>>
ClassifyIdle ==
  Subject = NULL /\ Body = NULL /\ category = NoCategory /\ addressable = UNSET

\* ------------------------------------------------- frames, files, errors

\* a workbook on disk or in an upload: whether it can be read, its header
\* row and its records
NoFile == [status |-> "none", columns |-> {}, rows |-> <<>>]

\* a DataFrame: its column names, the dtype pandas gave the Subject column
\* and its records in index order
NoFrame == [columns |-> {}, subject_dtype |-> "object", rows |-> <<>>]

\* an exception: its class, the function that raised it and, for the schema
\* error of load_data, the columns its message names
NoError == [type |-> "none", at |-> "none", missing |-> <<>>]

PipeIdle ==
  /\ file = NoFile
  /\ df = NoFrame
  /\ pc = "idle"
  /\ error = NoError
  /\ calls = <<>>
  /\ source = "none"
  /\ shown = <<>>

\* all sequences over S of length at most n
SeqsUpTo(S, n) == UNION {[1..k -> S] : k \in 0..n}

\* ---------------------------------------------- SpecNorm: the normalizers

\* longest string handed to the normalizers
MaxLen == 4
\* a letter, a capital, punctuation both normalizers drop, punctuation only
\* clean_text_basic drops, whitespace
NormAlphabet == {"a", "B", ",", "-", " ", "\t"}
NormInputs == {NULL} \cup SeqsUpTo(NormAlphabet, MaxLen)

\* how often each normalizer is applied to its own output
Applications == 2

InitNorm ==
  /\ input \in NormInputs
  /\ basic = <<>>
  /\ chatbot = <<>>
  /\ ClassifyIdle
  /\ PipeIdle

NormalizeBasic ==
  /\ Len(basic) < Applications
  /\ basic' = Append(basic, clean_text_basic(IF basic = <<>> THEN input ELSE basic[Len(basic)]))
  /\ UNCHANGED <<input, chatbot, classifyVars, pipeVars>>

NormalizeChatbot ==
  /\ Len(chatbot) < Applications
  /\ chatbot' = Append(chatbot,
                       clean_text_chatbot(IF chatbot = <<>> THEN input ELSE chatbot[Len(chatbot)]))
  /\ UNCHANGED <<input, basic, classifyVars, pipeVars>>

NextNorm == NormalizeBasic \/ NormalizeChatbot

SpecNorm == InitNorm /\ [][NextNorm]_vars

\* C5: both normalizers are idempotent: applying one to its own output
\* returns that output.
C5_Idempotent ==
  /\ Len(basic) = 2 => basic[2] = basic[1]
  /\ Len(chatbot) = 2 => chatbot[2] = chatbot[1]

\* ------------------------------------- SpecClassify: one (Subject, Body) pair

\* most fragments in a Body
MaxFrags == 2

\* The fragments bodies are made of.  They hit strong and weak category
\* patterns, patterns of each automation weight, patterns of several pairs
\* at once, and carry capitals and punctuation for the normalizers.
Vocab ==
  {(* 'Audit, '            *) <<"A","u","d","i","t",","," ">>,
   (* 'gift declaration '  *) <<"g","i","f","t"," ","d","e","c","l","a","r","a","t","i","o","n"," ">>,
   (* 'compliance '        *) <<"c","o","m","p","l","i","a","n","c","e"," ">>,
   (* 'meal '              *) <<"m","e","a","l"," ">>,
   (* 'coi '               *) <<"c","o","i"," ">>,
   (* 'confirm '           *) <<"c","o","n","f","i","r","m"," ">>}

Concat(fs) ==
  LET c[n \in 0..Len(fs)] == IF n = 0 THEN <<>> ELSE c[n - 1] \o fs[n]
  IN c[Len(fs)]

Bodies == {NULL} \cup {Concat(fs) : fs \in SeqsUpTo(Vocab, MaxFrags)}

(* How to reset my password for the IPT portal *)
HowToReset ==
  <<"H","o","w"," ","t","o"," ","r","e","s","e","t"," ","m","y"," ","p","a","s","s","w","o","r","d"," ","f","o","r"," ","t","h","e"," ","I","P","T"," ","p","o","r","t","a","l">>

Subjects ==
  {NULL, <<>>, HowToReset,
   (* Legal *)
   <<"L","e","g","a","l">>}

\* df["Body.TextBody"].apply(map_category): each Body's result, computed once
mapped == [b \in Bodies |-> map_category(b)]

\* df.apply(chatbot_addressability, axis=1): each row's result, computed once
results == [s \in Subjects, b \in Bodies |-> chatbot_addressability(s, b)]

InitClassify ==
  /\ Subject \in Subjects
  /\ Body \in Bodies
  /\ category = NoCategory
  /\ addressable = UNSET
  /\ NormIdle
  /\ PipeIdle

\* the record's category columns are filled in
MapCategory ==
  /\ category = NoCategory
  /\ category' = mapped[Body]
  /\ UNCHANGED <<Subject, Body, addressable, normVars, pipeVars>>

\* the record's chatbot columns are filled in, or the call raises
ChatbotAddressability ==
  /\ addressable = UNSET
  /\ addressable' = results[Subject, Body]
  /\ UNCHANGED <<Subject, Body, category, normVars, pipeVars>>

NextClassify == MapCategory \/ ChatbotAddressability

SpecClassify == InitClassify /\ [][NextClassify]_vars

\* ---------------------------------------------------- claims on SpecClassify

Pairs == 1..Len(CATEGORY_MAP)

\* How many patterns of the list match the text at least once.
Matching(pats, t) == Cardinality({j \in 1..Len(pats) : re_search(pats[j], t, TRUE)})

\* For each body, the distinct strong and weak patterns of every pair that
\* match its normalized text.
PairHits ==
  [b \in Bodies |->
     LET t == clean_text_basic(b)
     IN [i \in Pairs |-> <<Matching(CATEGORY_MAP[i].strong, t),
                           Matching(CATEGORY_MAP[i].weak, t)>>]]

Raw(b, i) == 3 * PairHits[b][i][1] + PairHits[b][i][2]
MaxRaw(b) == CHOOSE r \in {Raw(b, i) : i \in Pairs} : \A i \in Pairs : Raw(b, i) <= r

Mapped == category # NoCategory
\* the pair of the rule table that map_category returned
Returned(i) == CATEGORY_MAP[i].cat = category.cat /\ CATEGORY_MAP[i].sub = category.sub

\* C2: when some pair has a pattern hit, map_category returns a pair whose
\* raw score 3 * strong_hits + weak_hits (distinct matching patterns) is the
\* maximum over all pairs, labelled "strong" iff that pair has a strong hit,
\* with confidence min(1, raw / 5).
C2_BestRawScore ==
  Mapped /\ MaxRaw(Body) > 0 =>
    \E i \in Pairs :
      /\ Returned(i)
      /\ Raw(Body, i) = MaxRaw(Body)
      /\ category.label = (IF PairHits[Body][i][1] > 0 THEN "strong" ELSE "weak")
      /\ category.conf = Min(100, 20 * Raw(Body, i))

\* the winner scores above the cap of the confidence while another pair hits too
C2_Witness ==
  /\ Mapped
  /\ MaxRaw(Body) > 5
  /\ \E i \in Pairs : 0 < Raw(Body, i) /\ Raw(Body, i) < MaxRaw(Body)
  /\ category.conf = 100

\* C3: among pairs with the same maximal raw score map_category returns the
\* first in the iteration order of the rule table.
C3_FirstWinsTies ==
  Mapped /\ MaxRaw(Body) > 0 =>
    \E i \in Pairs :
      /\ Returned(i)
      /\ \A j \in Pairs : Raw(Body, j) = MaxRaw(Body) => i <= j

\* two pairs tie at the maximum, and a pair before them scores less
C3_Witness ==
  /\ Mapped
  /\ \E i, j \in Pairs :
       /\ i < j
       /\ Raw(Body, i) = MaxRaw(Body)
       /\ Raw(Body, j) = MaxRaw(Body)
       /\ Returned(i)
  /\ MaxRaw(Body) > 0

\* C4: map_category returns the "Not Detected" tuple exactly when no pair
\* scores above zero, in particular for an empty or null body; any other
\* result has confidence above 0.
C4_NotDetected ==
  Mapped =>
    /\ category = NotDetected <=> MaxRaw(Body) = 0
    /\ Body \in {NULL, <<>>} => category = NotDetected
    /\ category # NotDetected => category.conf > 0

\* the null body has been mapped
C4_Witness == Mapped /\ Body = NULL /\ category = NotDetected

Scored == addressable # UNSET /\ addressable # RAISED

\* compute_score of every row whose concatenation succeeds
Scores ==
  [s \in Subjects, b \in Bodies |-> IF ConcatRaises(s, b) THEN 0 ELSE compute_score(s, b)]

\* C1: chatbot_addressability returns ("Yes", min(1, score/4), score) for a
\* score >= 2, ("No", 0.1, score) for a score <= -1 and ("No", 0.3, score)
\* for the scores 0 and 1, where score is compute_score of the row.
C1_Thresholds ==
  Scored =>
    LET score == Scores[Subject, Body]
    IN /\ score >= 2 => addressable = <<"Yes", Min(100, 25 * score), score>>
       /\ score <= -1 => addressable = <<"No", 10, score>>
       /\ score \in {0, 1} => addressable = <<"No", 30, score>>

\* a row scored exactly 2, the lowest "Yes"
C1_Witness == Scored /\ addressable = <<"Yes", 50, 2>>

\* C6: a null subject or body never makes classification or scoring raise:
\* the null text counts as the empty string, and a null body is "Not Detected".
C6_NullTextNeverRaises ==
  Subject = NULL \/ Body = NULL =>
    /\ addressable # RAISED
    /\ Mapped /\ Body = NULL => category = NotDetected

\* How many patterns of group n of PATTERNS match the text at least once.
GroupHits(n, t) ==
  Cardinality({j \in 1..Len(PATTERNS[n].patterns) : re_search(PATTERNS[n].patterns[j], t, FALSE)})

\* For each row the weights +3, +1, -1, -3 times the distinct matching
\* patterns of the four groups, in the normalized subject + " " + body.
WeightedHits ==
  [s \in Subjects, b \in Bodies |->
     IF ConcatRaises(s, b) THEN 0
     ELSE LET t == clean_text_chatbot(s \o <<" ">> \o b)
          IN 3 * GroupHits(1, t) + GroupHits(2, t) - GroupHits(3, t) - 3 * GroupHits(4, t)]

\* C13: compute_score is the sum over the weight groups of the group's
\* weight times the number of distinct patterns of the group that match the
\* normalized subject + " " + body: a pattern counts once however often it
\* occurs, and the patterns of one group count each for itself.
C13_WeightedSum ==
  Scored => addressable[3] = WeightedHits[Subject, Body]

\* 'coi' occurs twice in the body and counts once, beside 'how to' of the
\* same group in the subject
C13_Witness ==
  /\ Scored
  /\ Subject = HowToReset
  /\ Body = <<"c","o","i"," ","c","o","i"," ">>
  /\ addressable[3] = 6

\* the normalized text of the row (HowToReset, "")
HowToText == clean_text_chatbot(HowToReset \o <<" ">> \o <<>>)

\* the high-confidence patterns that match HowToText
HowToCues ==
  {j \in 1..Len(PATTERNS[1].patterns) : re_search(PATTERNS[1].patterns[j], HowToText, FALSE)}

\* \b lit \b is a high-confidence pattern and matches HowToText
CueFires(lit) ==
  \E j \in HowToCues : PATTERNS[1].patterns[j] = <<WB, Lit(lit), WB>>

(* how to *)
CueHowTo == <<"h","o","w"," ","t","o">>
(* reset password *)
CueResetPassword == <<"r","e","s","e","t"," ","p","a","s","s","w","o","r","d">>
(* ipt portal *)
CueIptPortal == <<"i","p","t"," ","p","o","r","t","a","l">>

HowToRow == Subject = HowToReset /\ Body = <<>> /\ Scored

\* C14 as stated: the row (HowToReset, "") is decided "Yes" because the
\* cues 'how to', 'reset password' and 'ipt portal' each match the
\* normalized text and each add the high-confidence weight.
C14_ThreeCuesFire ==
  HowToRow =>
    /\ addressable[1] = "Yes"
    /\ CueFires(CueHowTo) /\ CueFires(CueResetPassword) /\ CueFires(CueIptPortal)
    /\ addressable[3] >= 9

\* C14 amended: the row (HowToReset, "") is decided "Yes" with score 3 and
\* confidence 0.75, because 'how to' is the one pattern of the table that
\* matches the normalized text.
C14_OnlyHowToFires ==
  HowToRow =>
    /\ addressable = <<"Yes", 75, 3>>
    /\ Cardinality(HowToCues) = 1
    /\ CueFires(CueHowTo) /\ ~CueFires(CueResetPassword) /\ ~CueFires(CueIptPortal)
    /\ WeightedHits[HowToReset, <<>>] = 3

C14_Witness == HowToRow /\ addressable[1] = "Yes"

\* ------------------------------------------------------------- timestamps

NaT == NULL

DigitChars == <<"0", "1", "2", "3", "4", "5", "6", "7", "8", "9">>
DigitValue(c) == (CHOOSE n \in 1..10 : DigitChars[n] = c) - 1

\* the number written by the digits s[a..b]
Number(s, a, b) ==
  LET v[i \in (a - 1)..b] == IF i = a - 1 THEN 0 ELSE 10 * v[i - 1] + DigitValue(s[i])
  IN v[b]

IsLeap(y) == y % 4 = 0 /\ (y % 100 # 0 \/ y % 400 = 0)
DaysIn(y, m) ==
  IF m = 2 THEN (IF IsLeap(y) THEN 29 ELSE 28)
  ELSE IF m \in {4, 6, 9, 11} THEN 30 ELSE 31

\* a cell that already holds a timestamp: <<year, month, day>>
IsTimestamp(v) == Len(v) = 3

\* pd.to_datetime(v, errors="coerce") of one cell: a timestamp stays, the
\* text YYYY-MM-DD of a calendar day is parsed, anything else is NaT
to_datetime(v) ==
  IF v = NULL THEN NaT
  ELSE IF IsTimestamp(v) THEN v
  ELSE IF /\ Len(v) = 10
          /\ v[5] = "-" /\ v[8] = "-"
          /\ \A i \in {1, 2, 3, 4, 6, 7, 9, 10} : v[i] \in Digits
       THEN LET y == Number(v, 1, 4)
                m == Number(v, 6, 7)
                d == Number(v, 9, 10)
            IN IF m \in 1..12 /\ d \in 1..DaysIn(y, m) THEN <<y, m, d>> ELSE NaT
  ELSE NaT

\* series.dt.year of one cell; the year of NaT is NaN, which compares False
YearOf(ts) == IF ts = NaT THEN 0 ELSE ts[1]
HasYear(ts) == ts # NaT

\* clean_datetime of one cell
clean_datetime_ExclusiveRange(v) ==
  LET ts == to_datetime(v)
  IN IF HasYear(ts) /\ (YearOf(ts) <= 2000 \/ YearOf(ts) >= 2030) THEN NaT ELSE ts

clean_datetime(v) ==
  LET ts == to_datetime(v)
  IN IF HasYear(ts) /\ (YearOf(ts) < 2000 \/ YearOf(ts) > 2030) THEN NaT ELSE ts

\* ------------------------------------------------------------ the records

\* the cells a timestamp column holds in the workbook
(* 1990-06-01 *)
Y1990 == <<"1","9","9","0","-","0","6","-","0","1">>
(* 2099-06-01 *)
Y2099 == <<"2","0","9","9","-","0","6","-","0","1">>
(* 2025-06-01 *)
Y2025 == <<"2","0","2","5","-","0","6","-","0","1">>
(* 2030-12-31 *)
Y2030 == <<"2","0","3","0","-","1","2","-","3","1">>
(* 2000-01-01 *)
Y2000 == <<"2","0","0","0","-","0","1","-","0","1">>
(* 2025-02-30 *)
NoSuchDay == <<"2","0","2","5","-","0","2","-","3","0">>
(* not a date *)
NotADate == <<"n","o","t"," ","a"," ","d","a","t","e">>

RawTimes == {NULL, Y1990, Y2099, Y2025, Y2030, Y2000, NoSuchDay, NotADate}

\* clean_datetime of every cell, computed once
Cleaned == [v \in RawTimes |-> clean_datetime(v)]

SentCells == {Y1990, Y2099, Y2025, Y2000, Y2030}
ReceivedCells == {Y2025, Y2030, NotADate}

(* Legal *)
Legal == <<"L","e","g","a","l">>
(* Out of office TEST *)
OutOfOfficeTEST == <<"O","u","t"," ","o","f"," ","o","f","f","i","c","e"," ","T","E","S","T">>

SubjectCells == {NULL, Legal, OutOfOfficeTEST}

(* coi  *)
Coi == <<"c","o","i"," ">>
BodyCells == {Coi}

\* One record of a frame.  src is the record's position in the workbook; it
\* is no column and takes no part in any comparison the code makes.
Cells(cols) ==
  [DateTimeSent : IF "DateTimeSent" \in cols THEN SentCells ELSE {NULL},
   DateTimeReceived : IF "DateTimeReceived" \in cols THEN ReceivedCells ELSE {NULL},
   Subject : IF "Subject" \in cols THEN SubjectCells ELSE {NULL},
   Body : IF "Body.TextBody" \in cols THEN BodyCells ELSE {NULL}]

Row(i, c) ==
  [src |-> i, DateTimeSent |-> c.DateTimeSent, DateTimeReceived |-> c.DateTimeReceived,
   Subject |-> c.Subject, Body |-> c.Body, Category |-> NoCategory, Chatbot |-> UNSET]

\* the workbook with the header row cols and the records cs in order
Workbook(cols, cs) ==
  [status |-> "ok", columns |-> cols, rows |-> [i \in 1..Len(cs) |-> Row(i, cs[i])]]

\* --------------------------------------------------------------- load_data

required_cols == <<"DateTimeSent", "DateTimeReceived", "Subject", "Body.TextBody">>
RequiredSet == {required_cols[i] : i \in 1..Len(required_cols)}

Ok(d) == [ok |-> TRUE, df |-> d, error |-> NoError]
Raise(type, at, missing, d) ==
  [ok |-> FALSE, df |-> d, error |-> [type |-> type, at |-> at, missing |-> missing]]

\* pd.read_excel: a column without any text is not of dtype object
read_excel(f) ==
  [columns |-> f.columns,
   subject_dtype |->
     IF "Subject" \in f.columns /\ f.rows # <<>> /\ \A i \in 1..Len(f.rows) : f.rows[i].Subject = NULL
     THEN "float64" ELSE "object",
   rows |-> f.rows]

ReadError(f) == IF f.status = "not_found" THEN "FileNotFoundError" ELSE "BadZipFile"

InColumns(cols, col) == col \in cols

missing_cols_First(cols) ==
  LET all == SelectSeq(required_cols, LAMBDA col : ~InColumns(cols, col))
  IN IF all = <<>> THEN <<>> ELSE <<all[1]>>

missing_cols(cols) == SelectSeq(required_cols, LAMBDA col : ~InColumns(cols, col))

load_data(f) ==
  IF f.status # "ok" THEN Raise(ReadError(f), "load_data", <<>>, NoFrame)
  ELSE LET d == read_excel(f)
       IN IF missing_cols(d.columns) # <<>>
          THEN Raise("ValueError", "load_data", missing_cols(d.columns), NoFrame)
          ELSE Ok(d)

\* -------------------------------------------------------------- preprocess

Dropped == [src |-> 0, DateTimeSent |-> NULL, DateTimeReceived |-> NULL,
            Subject |-> NULL, Body |-> NULL, Category |-> NoCategory, Chatbot |-> UNSET]
NotDropped(r) == r # Dropped

\* the records at the positions K, in order
KeepIdx(rows, K) ==
  SelectSeq([i \in 1..Len(rows) |-> IF i \in K THEN rows[i] ELSE Dropped], NotDropped)

\* the values of a record in the columns of the frame
Values(r) == <<r.DateTimeSent, r.DateTimeReceived, r.Subject, r.Body>>

\* df.drop_duplicates(): the first of the records equal in every column
drop_duplicates(rows) ==
  KeepIdx(rows, {i \in 1..Len(rows) : \A j \in 1..(i - 1) : Values(rows[j]) # Values(rows[i])})

exclude_terms ==
  {(* respuesta automatica *) <<"r","e","s","p","u","e","s","t","a"," ","a","u","t","o","m","a_acute","t","i","c","a">>,
   (* automatic reply *) <<"a","u","t","o","m","a","t","i","c"," ","r","e","p","l","y">>,
   (* automatische antwort *) <<"a","u","t","o","m","a","t","i","s","c","h","e"," ","a","n","t","w","o","r","t">>,
   (* reponse automatique *) <<"r","e_acute","p","o","n","s","e"," ","a","u","t","o","m","a","t","i","q","u","e">>,
   (* quarantine *) <<"q","u","a","r","a","n","t","i","n","e">>,
   (* undeliverable *) <<"u","n","d","e","l","i","v","e","r","a","b","l","e">>,
   (* test *) <<"t","e","s","t">>}

\* Subject.str.contains(pattern, na=False) of one cell
contains(s) == IF s = NULL THEN FALSE ELSE re_search(<<Alt(exclude_terms)>>, s, TRUE)

\* contains of every Subject cell, computed once
Noise == [s \in SubjectCells |-> contains(s)]

\* the steps of preprocess before the noise filter
CleanTimes(rows) ==
  [i \in 1..Len(rows) |->
     [rows[i] EXCEPT !.DateTimeSent = Cleaned[@], !.DateTimeReceived = Cleaned[@]]]

DropNoDates(rows) ==
  KeepIdx(rows, {i \in 1..Len(rows) :
                   ~(rows[i].DateTimeSent = NaT /\ rows[i].DateTimeReceived = NaT)})

Only2025_OrNoReceived(rows) ==
  KeepIdx(rows, {i \in 1..Len(rows) :
                   ~HasYear(rows[i].DateTimeReceived) \/ YearOf(rows[i].DateTimeReceived) = 2025})

Only2025(rows) ==
  KeepIdx(rows, {i \in 1..Len(rows) :
                   HasYear(rows[i].DateTimeReceived) /\ YearOf(rows[i].DateTimeReceived) = 2025})

DropNoise(rows) == KeepIdx(rows, {i \in 1..Len(rows) : ~Noise[rows[i].Subject]})

preprocess(d) ==
  LET deduped == drop_duplicates(Only2025(DropNoDates(CleanTimes(d.rows))))
  IN IF d.subject_dtype # "object"
     THEN Raise("AttributeError", "preprocess", <<>>, d)
     ELSE Ok([d EXCEPT !.rows = DropNoise(deduped)])

\* ---------------------------------------------------- mapping and scoring

\* map_category and chatbot_addressability of the cells, computed once
(* meal  *)
Meal == <<"m","e","a","l"," ">>

\* the cells of the frames that are enriched more than once
EnrichSubjects == {NULL, Legal, HowToReset}
EnrichBodies == {Coi, Meal}

RowMapped == [b \in BodyCells \cup EnrichBodies |-> map_category(b)]
RowResults ==
  [s \in SubjectCells \cup EnrichSubjects, b \in BodyCells \cup EnrichBodies |->
     chatbot_addressability(s, b)]

CategoryColumns == {"Category", "Sub-Category", "Sub-Sub-Category", "Confidence"}
ChatbotColumns == {"Chatbot_Addressable", "Chatbot_Confidence", "Chatbot_Score"}

\* pd.DataFrame([], index=df.index) has no columns to assign from
apply_category_mapping(d) ==
  IF d.rows = <<>>
  THEN Raise("ValueError", "apply_category_mapping", <<>>, d)
  ELSE Ok([columns |-> d.columns \cup CategoryColumns,
           subject_dtype |-> d.subject_dtype,
           rows |-> [i \in 1..Len(d.rows) |->
                       [d.rows[i] EXCEPT !.Category = RowMapped[d.rows[i].Body]]]])

apply_chatbot(d) ==
  IF \E i \in 1..Len(d.rows) : RowResults[d.rows[i].Subject, d.rows[i].Body] = RAISED
  THEN Raise("TypeError", "apply_chatbot", <<>>, d)
  ELSE Ok([columns |-> d.columns \cup ChatbotColumns,
           subject_dtype |-> d.subject_dtype,
           rows |-> [i \in 1..Len(d.rows) |->
                       [d.rows[i] EXCEPT
                          !.Chatbot = RowResults[d.rows[i].Subject, d.rows[i].Body]]]])

\* the next call of run_full_pipeline, unless the one before raised
ThenPreprocess(r) == IF r.ok THEN preprocess(r.df) ELSE r
ThenMapping(r) == IF r.ok THEN apply_category_mapping(r.df) ELSE r
ThenChatbot(r) == IF r.ok THEN apply_chatbot(r.df) ELSE r

run_full_pipeline(f) == ThenChatbot(ThenMapping(ThenPreprocess(load_data(f))))

\* ------------------------------------------------ Spec: run_full_pipeline

\* file is a workbook with at most n records; a sheet without columns has no
\* records
FileIsWorkbook(n) ==
  \E cols \in SUBSET RequiredSet :
    \E k \in 0..(IF cols = {} THEN 0 ELSE n) :
      \E cs \in [1..k -> Cells(cols)] : file = Workbook(cols, cs)

\* most records in a workbook
MaxRows == 2

DashIdle == source = "none" /\ shown = <<>>

Init ==
  /\ file = [status |-> "not_found", columns |-> {}, rows |-> <<>>] \/ FileIsWorkbook(MaxRows)
  /\ df = NoFrame
  /\ pc = "start"
  /\ error = NoError
  /\ calls = <<>>
  /\ DashIdle
  /\ NormIdle
  /\ ClassifyIdle

\* One call of run_full_pipeline returns: its result becomes the frame, or
\* its exception ends the run.
Returns(name, r, to) ==
  /\ calls' = Append(calls, name)
  /\ df' = r.df
  /\ error' = r.error
  /\ pc' = IF r.ok THEN to ELSE "raised"
  /\ UNCHANGED <<file, source, shown, normVars, classifyVars>>

LoadData ==
  /\ pc = "start"
  /\ Returns("load_data", load_data(file), "loaded")

Preprocess ==
  /\ pc = "loaded"
  /\ Returns("preprocess", preprocess(df), "preprocessed")

ApplyCategoryMapping ==
  /\ pc = "preprocessed"
  /\ Returns("apply_category_mapping", apply_category_mapping(df), "mapped")

ApplyChatbot ==
  /\ pc = "mapped"
  /\ Returns("apply_chatbot", apply_chatbot(df), "returned")

Next == LoadData \/ Preprocess \/ ApplyCategoryMapping \/ ApplyChatbot

Spec == Init /\ [][Next]_vars

\* C7: when the workbook lacks required columns, run_full_pipeline raises at
\* load_data an error naming exactly the missing columns, before
\* preprocess, mapping or scoring run on any record; when all four are there
\* no schema error is raised.
C7_SchemaError ==
  LET Missing == {col \in RequiredSet : col \notin file.columns}
      Named == {error.missing[i] : i \in 1..Len(error.missing)}
  IN file.status = "ok" /\ pc # "start" =>
       IF Missing # {}
       THEN /\ pc = "raised"
            /\ error.type = "ValueError" /\ error.at = "load_data"
            /\ Named = Missing /\ Len(error.missing) = Cardinality(Missing)
            /\ calls = <<"load_data">>
            /\ df = NoFrame
       ELSE error.missing = <<>> /\ error.at # "load_data"

\* a workbook with records and two columns missing has been refused
C7_Witness ==
  /\ pc = "raised"
  /\ file.rows # <<>>
  /\ error.missing = <<"DateTimeSent", "Subject">>

\* the positions in the workbook of the records preprocess returned
Output ==
  IF error.at \in {"load_data", "preprocess"} THEN {}
  ELSE {df.rows[k].src : k \in 1..Len(df.rows)}

PreprocessCalled == \E n \in 1..Len(calls) : calls[n] = "preprocess"
PreprocessReturned == PreprocessCalled /\ error.at # "preprocess"

\* the record at position i of the workbook as ingested, and after the
\* timestamps are cleaned
Original(i) == Values(file.rows[i])
Normalized(i) ==
  <<Cleaned[file.rows[i].DateTimeSent], Cleaned[file.rows[i].DateTimeReceived],
    file.rows[i].Subject, file.rows[i].Body>>

\* the record passes the date filters
In2025(i) ==
  HasYear(Cleaned[file.rows[i].DateTimeReceived])
    /\ YearOf(Cleaned[file.rows[i].DateTimeReceived]) = 2025

\* C9: records are duplicates exactly when they are identical in all
\* as-ingested columns: of the records equal to one that no filter removes,
\* exactly one is in the output of preprocess, so identical records come out
\* once and records that differ in an original value are never collapsed.
C9_OriginalDuplicates ==
  PreprocessReturned =>
    \A i \in 1..Len(file.rows) :
      In2025(i) /\ ~Noise[file.rows[i].Subject] =>
        Cardinality({k \in Output : Original(k) = Original(i)}) = 1

\* the record reaches the noise filter: it passes the date filters and is the
\* first of the records equal to it after cleaning
ReachesNoiseFilter(i) ==
  In2025(i) /\ \A j \in 1..(i - 1) : In2025(j) => Normalized(j) # Normalized(i)

\* C10: the noise filter removes a record iff its subject contains one of
\* the configured phrases, whatever the case; every other record that
\* reached the filter, a null subject included, is in the output unchanged.
C10_NoiseFilter ==
  PreprocessCalled =>
    \A i \in 1..Len(file.rows) :
      ReachesNoiseFilter(i) =>
        /\ i \in Output <=> ~Noise[file.rows[i].Subject]
        /\ \A k \in 1..Len(df.rows) :
             i \in Output /\ df.rows[k].src = i => Values(df.rows[k]) = Normalized(i)

\* what a cell of a timestamp column says: no calendar day, or a day of a year
NoCalendarDay == {NULL, NoSuchDay, NotADate}
CalendarYear(v) ==
  CASE v = Y1990 -> 1990 [] v = Y2000 -> 2000 [] v = Y2025 -> 2025
    [] v = Y2030 -> 2030 [] v = Y2099 -> 2099
CalendarDay(v) ==
  CASE v = Y1990 -> <<1990, 6, 1>> [] v = Y2000 -> <<2000, 1, 1>> [] v = Y2025 -> <<2025, 6, 1>>
    [] v = Y2030 -> <<2030, 12, 31>> [] v = Y2099 -> <<2099, 6, 1>>
AbsentAfterCleaning(v) == v \in NoCalendarDay \/ CalendarYear(v) \notin 2000..2030

\* the record of the output that stood at position i of the workbook
OutputRow(i) == df.rows[CHOOSE k \in 1..Len(df.rows) : df.rows[k].src = i]

\* C11: clean_datetime makes a timestamp absent exactly when it is
\* unparseable or its year is outside 2000..2030, both ends kept, and raises
\* for no input; preprocess drops every record whose two timestamps are both
\* absent after cleaning.
C11_RangeGuard ==
  /\ \A v \in RawTimes :
       Cleaned[v] = (IF AbsentAfterCleaning(v) THEN NaT ELSE CalendarDay(v))
  /\ PreprocessCalled =>
       /\ error.at = "preprocess" => df.subject_dtype # "object"
       /\ \A i \in 1..Len(file.rows) :
            /\ AbsentAfterCleaning(file.rows[i].DateTimeSent)
                 /\ AbsentAfterCleaning(file.rows[i].DateTimeReceived) => i \notin Output
            /\ i \in Output =>
                 /\ OutputRow(i).DateTimeSent = NaT
                      <=> AbsentAfterCleaning(file.rows[i].DateTimeSent)
                 /\ OutputRow(i).DateTimeReceived = NaT
                      <=> AbsentAfterCleaning(file.rows[i].DateTimeReceived)

\* preprocess returned a record sent in 2030 with its time kept and a record
\* sent in 2099 with its time absent
C11_Witness ==
  /\ pc = "preprocessed"
  /\ \E i, j \in Output :
       /\ file.rows[i].DateTimeSent = Y2030 /\ OutputRow(i).DateTimeSent = <<2030, 12, 31>>
       /\ file.rows[j].DateTimeSent = Y2099 /\ OutputRow(j).DateTimeSent = NaT

\* C15: every record preprocess returns has a received timestamp of 2025; a
\* record whose received timestamp is absent after cleaning is dropped even
\* with a valid sent timestamp, so dropping the records with both timestamps
\* absent changes nothing the year filter would not do.
C15_ReceivedIn2025 ==
  PreprocessCalled =>
    /\ \A i \in Output :
         HasYear(OutputRow(i).DateTimeReceived) /\ YearOf(OutputRow(i).DateTimeReceived) = 2025
    /\ \A i \in 1..Len(file.rows) :
         AbsentAfterCleaning(file.rows[i].DateTimeReceived) => i \notin Output
    /\ Only2025(CleanTimes(file.rows)) = Only2025(DropNoDates(CleanTimes(file.rows)))

\* preprocess returned, without the record sent in 2025 whose received time
\* does not parse
C15_Witness ==
  /\ pc = "preprocessed"
  /\ Output # {}
  /\ \E i \in 1..Len(file.rows) :
       /\ file.rows[i].DateTimeSent = Y2025
       /\ file.rows[i].DateTimeReceived = NotADate
       /\ i \notin Output

\* -------------------------------- SpecEnrich: mapping and scoring, repeated

\* most calls of apply_category_mapping and apply_chatbot on one frame
MaxCalls == 3

\* a preprocessed frame: records received in 2025, in any order, alike or not
EnrichRow(i, c) ==
  [src |-> i, DateTimeSent |-> NaT, DateTimeReceived |-> <<2025, 6, 1>>,
   Subject |-> c[1], Body |-> c[2], Category |-> NoCategory, Chatbot |-> UNSET]

InitEnrich ==
  /\ \E k \in 0..MaxRows :
       \E cs \in [1..k -> EnrichSubjects \X EnrichBodies] :
         df = [columns |-> RequiredSet, subject_dtype |-> "object",
               rows |-> [i \in 1..k |-> EnrichRow(i, cs[i])]]
  /\ file = NoFile
  /\ pc = "enrich"
  /\ error = NoError
  /\ calls = <<>>
  /\ DashIdle
  /\ NormIdle
  /\ ClassifyIdle

\* one more call on the frame as it is: the frame the call returns, or its
\* exception
Enriches(name, r) ==
  /\ calls' = Append(calls, name)
  /\ df' = r.df
  /\ error' = r.error
  /\ pc' = IF r.ok THEN "enrich" ELSE "raised"
  /\ UNCHANGED <<file, source, shown, normVars, classifyVars>>

EnrichCategories ==
  /\ pc = "enrich" /\ Len(calls) < MaxCalls
  /\ Enriches("apply_category_mapping", apply_category_mapping(df))

EnrichChatbot ==
  /\ pc = "enrich" /\ Len(calls) < MaxCalls
  /\ Enriches("apply_chatbot", apply_chatbot(df))

NextEnrich == EnrichCategories \/ EnrichChatbot

SpecEnrich == InitEnrich /\ [][NextEnrich]_vars

Called(name) == {n \in 1..Len(calls) : calls[n] = name}

\* C12: the derived fields of a record are a function of its own subject
\* and body: whatever the other records and their order, and however often
\* mapping and scoring have run on the frame, a record's category fields are
\* map_category of its body and, for a record with a subject and a body, its
\* chatbot fields are chatbot_addressability of the two.
C12_OwnFieldsOnly ==
  \A k \in 1..Len(df.rows) :
    LET row == df.rows[k] IN
    /\ Called("apply_category_mapping") # {} => row.Category = mapped[row.Body]
    /\ Called("apply_chatbot") # {} /\ row.Subject # NULL /\ row.Body # NULL =>
         row.Chatbot = results[row.Subject, row.Body]

\* ------------------------------------------ SpecDash: the dashboard's load

REQUIRED_COLS ==
  {"DateTimeReceived", "Subject", "Body.TextBody", "Category", "Sub-Category",
   "Chatbot_Addressable"}

ensure_cols(d) == [d EXCEPT !.columns = @ \cup REQUIRED_COLS]

DerivedColumns == {"Date", "Month", "Hour", "Weekday", "Subject_Length"}

\* fallback_process: the received time is parsed without any range check,
\* the sent time stands in when no received time parses, records without a
\* time go, null subjects become empty
fallback_process(d) ==
  LET n == Len(d.rows)
      received == [i \in 1..n |-> to_datetime(d.rows[i].DateTimeReceived)]
      times == IF (\A i \in 1..n : received[i] = NaT) /\ "DateTimeSent" \in d.columns
               THEN [i \in 1..n |-> to_datetime(d.rows[i].DateTimeSent)]
               ELSE received
      parsed == [i \in 1..n |->
                   [d.rows[i] EXCEPT !.DateTimeReceived = times[i],
                                     !.Subject = IF @ = NULL THEN <<>> ELSE @]]
  IN [columns |-> d.columns \cup DerivedColumns
                    \cup {"DateTimeReceived", "Chatbot_Addressable", "Category", "Sub-Category"},
      subject_dtype |-> "object",
      rows |-> KeepIdx(parsed, {i \in 1..n : times[i] # NaT})]

\* most records in a workbook handed to the dashboard
DashRows == 1

InitDash ==
  /\ \/ source = "none" /\ file = NoFile
     \/ source \in {"upload", "default"} /\ FileIsWorkbook(DashRows)
     \/ source \in {"upload", "default"}
          /\ file = [status |-> "corrupt", columns |-> {}, rows |-> <<>>]
     \/ source = "default"
          /\ file = [status |-> "not_found", columns |-> {}, rows |-> <<>>]
  /\ df = NoFrame
  /\ pc = "start"
  /\ error = NoError
  /\ calls = <<>>
  /\ shown = <<>>
  /\ NormIdle
  /\ ClassifyIdle

\* The body of either try block, r being what engine.run_full_pipeline did:
\* its result, or after any exception of the engine the workbook read again
\* by read and processed locally.  An exception of that second read is shown
\* and the script stops if the outer except clause catches it; otherwise it
\* ends the script.
TryLoad(r, read, caught) ==
  /\ error' = r.error
  /\ IF r.ok
     THEN /\ df' = r.df
          /\ calls' = <<"run_full_pipeline">>
          /\ shown' = <<"st.success">>
          /\ pc' = "loaded"
     ELSE IF file.status = "ok"
     THEN /\ df' = fallback_process(ensure_cols(read_excel(file)))
          /\ calls' = <<"run_full_pipeline", read, "ensure_cols", "fallback_process">>
          /\ shown' = <<"st.success">>
          /\ pc' = "loaded"
     ELSE /\ df' = NoFrame
          /\ calls' = <<"run_full_pipeline", read>>
          /\ shown' = IF caught THEN <<"st.error">> ELSE <<"exception">>
          /\ pc' = IF caught THEN "stopped" ELSE "crashed"
  /\ UNCHANGED <<file, source, normVars, classifyVars>>

\* the upload: except Exception
LoadUploaded ==
  /\ pc = "start" /\ source = "upload"
  /\ TryLoad(run_full_pipeline(file), "safe_read_excel", TRUE)

\* the built-in dataset: except FileNotFoundError
LoadDefault ==
  /\ pc = "start" /\ source = "default"
  /\ TryLoad(run_full_pipeline(file), "pd.read_excel", ReadError(file) = "FileNotFoundError")

NoDataset ==
  /\ pc = "start" /\ source = "none"
  /\ shown' = <<"st.info">>
  /\ pc' = "stopped"
  /\ UNCHANGED <<file, df, error, calls, source, normVars, classifyVars>>

\* the columns the dashboard expects are added, the derived fields computed
ValidateSchema ==
  /\ pc = "loaded"
  /\ IF "DateTimeReceived" \notin ensure_cols(df).columns
     THEN /\ df' = ensure_cols(df)
          /\ shown' = Append(shown, "st.error")
          /\ pc' = "stopped"
     ELSE /\ df' = IF {"Date", "Month"} \subseteq ensure_cols(df).columns
                   THEN ensure_cols(df)
                   ELSE fallback_process(ensure_cols(df))
          /\ shown' = shown
          /\ pc' = "validated"
  /\ UNCHANGED <<file, error, calls, source, normVars, classifyVars>>

\* the sidebar filters, the KPIs and the charts are built from df
SidebarFilters ==
  /\ pc = "validated"
  /\ pc' = "filters"
  /\ UNCHANGED <<file, df, error, calls, source, shown, normVars, classifyVars>>

NextDash == LoadUploaded \/ LoadDefault \/ NoDataset \/ ValidateSchema \/ SidebarFilters

SpecDash == InitDash /\ [][NextDash]_vars

\* C8: whenever the engine raises the schema error, the dashboard shows the
\* error and stops: it neither loads the workbook by the local path nor goes
\* on to the filters with it.
C8_SchemaErrorHalts ==
  error.type = "ValueError" /\ error.missing # <<>> =>
    /\ pc = "stopped"
    /\ shown = <<"st.error">>
    /\ calls = <<"run_full_pipeline">>

\* ------------------------------------- SpecAmp: '&' in the scorer's patterns

\* most fragments in a body
AmpFrags == 2

AmpVocab ==
  {(* 'G&E '                   *) <<"G","&","E"," ">>,
   (* 'Gifts & Entertainment ' *) <<"G","i","f","t","s"," ","&"," ","E","n","t","e","r","t","a","i","n","m","e","n","t"," ">>,
   (* 'gift & entertainment '  *) <<"g","i","f","t"," ","&"," ","e","n","t","e","r","t","a","i","n","m","e","n","t"," ">>,
   (* 'coi '                   *) <<"c","o","i"," ">>}

GAndE == <<"G","&","E">>

AmpSubjects ==
  {NULL, <<>>, GAndE,
   (* Legal & G&E policy *)
   <<"L","e","g","a","l"," ","&"," ","G","&","E"," ","p","o","l","i","c","y">>}

AmpBodies == {Concat(fs) : fs \in SeqsUpTo(AmpVocab, AmpFrags)}

\* df.apply(chatbot_addressability, axis=1) over the rows of this part
AmpResults == [s \in AmpSubjects, b \in AmpBodies |-> chatbot_addressability(s, b)]

InitAmp ==
  /\ Subject \in AmpSubjects
  /\ Body \in AmpBodies
  /\ category = NoCategory
  /\ addressable = UNSET
  /\ NormIdle
  /\ PipeIdle

\* the row is scored, or the call raises
ScoreRow ==
  /\ addressable = UNSET
  /\ addressable' = AmpResults[Subject, Body]
  /\ UNCHANGED <<Subject, Body, category, normVars, pipeVars>>

NextAmp == ScoreRow

SpecAmp == InitAmp /\ [][NextAmp]_vars

\* ---------------------------------------------------------- claims on SpecAmp

\* the pattern has a literal '&'
HasAmp(pat) ==
  \E i \in 1..Len(pat) : pat[i].k = "lit" /\ \E m \in 1..Len(pat[i].s) : pat[i].s[m] = "&"

\* the patterns of PATTERNS with a literal '&': \bg&e\b and
\* \bgift(s?) & entertainment\b
AmpPatterns ==
  {gj \in UNION {{<<n, j>> : j \in 1..Len(PATTERNS[n].patterns)} : n \in 1..Len(PATTERNS)} :
     HasAmp(PATTERNS[gj[1]].patterns[gj[2]])}

NotAmp(c) == c # "&"
\* the text with each '&' removed
RemoveAmp(t) == IF t = NULL THEN NULL ELSE SelectSeq(t, NotAmp)

\* compute_score of each row with the '&' removed from subject and body
PlainScores ==
  [s \in AmpSubjects, b \in AmpBodies |->
     IF ConcatRaises(s, b) THEN 0 ELSE compute_score(RemoveAmp(s), RemoveAmp(b))]

\* the pattern matches the text
Fires(gj, t) == re_search(PATTERNS[gj[1]].patterns[gj[2]], t, FALSE)

\* C16: the normalized text of a scored row has no '&', so neither pattern
\* with a literal '&' matches it, and the row's score is the score of the
\* same subject and body with every '&' removed.
C16_AmpNeverCounts ==
  Scored =>
    LET text == clean_text_chatbot(Subject \o <<" ">> \o Body) IN
    /\ \A i \in 1..Len(text) : text[i] # "&"
    /\ \A gj \in AmpPatterns : ~Fires(gj, text)
    /\ addressable[3] = PlainScores[Subject, Body]

\* a scored row that mentions G&E and Gifts & Entertainment: both patterns
\* match its lower-cased text, and its score is that of 'coi' alone
C16_Witness ==
  /\ Scored
  /\ Subject = GAndE
  /\ Body = <<"G","i","f","t","s"," ","&"," ","E","n","t","e","r","t","a","i","n","m","e","n","t"," ","c","o","i"," ">>
  /\ Cardinality(AmpPatterns) = 2
  /\ \A gj \in AmpPatterns : Fires(gj, Lower(Subject \o <<" ">> \o Body))
  /\ addressable[3] = 3


====
